---- MODULE Spec2Model ----
(***************************************************************************)
(* A model of the file-system record store of ARK-Rate-Desktop             *)
(* (src-tauri/src/implementations/data_access/file_system/                 *)
(*  file_system_data_access.rs).                                           *)
(*                                                                         *)
(* The store keeps one JSON file per pair under <root>/pairs and one JSON  *)
(* file per pair group under <root>/pair_groups.  The model's state is the *)
(* directory tree below the root, plus the position and the locals of each *)
(* task that is executing write_pair_group, update_pair_group or           *)
(* fetch_pair_groups.  Every file-system call of the code is one step.     *)
(*                                                                         *)
(* Modelling assumptions (stated, not claimed of the code):                *)
(*  - ids are plain file names (one normal path component), so             *)
(*    dir.join(id) names a file directly inside dir;                       *)
(*  - the file system is case sensitive and files are never removed by     *)
(*    anyone else while the program runs;                                  *)
(*  - strings and finite floats survive serde_json unchanged; a non-finite *)
(*    float is written as the JSON literal null (serde_json's              *)
(*    serialize_f64) and null does not decode into an f64.                 *)
(***************************************************************************)
EXTENDS Integers, Sequences, FiniteSets, TLC

\* ---------------------------------------------------------------- bounds
\* longest pair list a caller passes, and longest id list found on disk
MaxPairs == 2
\* write_pair_group / update_pair_group calls started in one behaviour
MaxCalls == 2
\* longest pair list a caller passes while another operation is in flight
MaxConcPairs == 1
\* environment faults (failed file-system calls, abandoned operations)
\* in one behaviour
MaxFaults == 1

\* ------------------------------------------------------------- constants
PAIRS_DIR_NAME == "pairs"
PAIR_GROUPS_DIR_NAME == "pair_groups"

NOT_EXIST_MESSAGE == "Pair group to update does not exist!"
\* e.to_string() of the io::Error of a missing file, of any other failed
\* file-system call, and of the two serde_json errors the model produces
ENOENT_MESSAGE == "No such file or directory (os error 2)"
EIO_MESSAGE == "Input/output error (os error 5)"
EOF_MESSAGE == "EOF while parsing a value"
NULL_MESSAGE == "invalid type: null, expected f64"

\* ------------------------------------------------------------ the inputs
PairIds == {"p1", "p2"}
GroupIds == {"pg1", "pg2"}

\* entities::pair::Pair; value is an f64, "inf" stands for a non-finite one
MkPair(id, comparison, value, updated_at) ==
    [id |-> id, base |-> "USD", comparison |-> comparison, value |-> value,
     created_at |-> "t0", updated_at |-> updated_at]

\* the pairs callers pass
Pairs ==
    { MkPair("p1", "BTC", "1.0", "t0"),
      MkPair("p1", "BTC", "2.0", "t1"),
      MkPair("p1", "BRL", "inf", "t1"),
      MkPair("p2", "ETH", "2.0", "t0") }

\* the pairs of the concurrent scenarios
ConcPairs ==
    { MkPair("p1", "BTC", "1.0", "t0"),
      MkPair("p1", "BTC", "2.0", "t1"),
      MkPair("p2", "ETH", "2.0", "t0") }

SeqsUpTo(S, n) == UNION { [1..k -> S] : k \in 0..n }

\* entities::pair_group::PairGroup
MkPairGroup(id, is_pinned, pairs) ==
    [id |-> id, pairs |-> pairs, is_pinned |-> is_pinned,
     created_at |-> "t0", updated_at |-> IF is_pinned THEN "t1" ELSE "t0"]

PairGroups ==
    { MkPairGroup(id, pin, ps) :
        id \in GroupIds, pin \in BOOLEAN, ps \in SeqsUpTo(Pairs, MaxPairs) }

ConcPairGroups ==
    { MkPairGroup(id, pin, ps) :
        id \in GroupIds, pin \in BOOLEAN, ps \in SeqsUpTo(ConcPairs, MaxConcPairs) }

\* the callers' tasks; operations are started on the first idle one
Tasks == {1, 2}

\* ------------------------------------------------------------ the state
VARIABLES
    dirs,     \* the directories that exist below the root
    files,    \* path -> contents of every file below the root
    tasks,    \* task -> position, locals and result of its operation
    calls,    \* write/update calls started since the initial state
    faults,   \* environment faults so far
    history   \* the write/update calls that ended, in the order they ended

vars == <<dirs, files, tasks, calls, faults, history>>

\* ------------------------------------------------------ results, errors
\* Result<T, Error>: Ok(val) or Err(Error { message })
Ok(v) == [ok |-> TRUE, val |-> <<v>>, message |-> ""]
Err(m) == [ok |-> FALSE, val |-> <<>>, message |-> m]

\* --------------------------------------------------------- serde, JSON
\* A file holds <<>> (no complete JSON document: empty or cut short) or
\* <<doc>>, the JSON object written to it.

FiniteValues == {"1.0", "2.0"}

\* serde_json::to_string of the FileSystemPair built from pair: the flat
\* projection of Pair; a non-finite value is written as null
PairToJson(pair) ==
    [id |-> pair.id, base |-> pair.base, comparison |-> pair.comparison,
     value |-> IF pair.value \in FiniteValues THEN pair.value ELSE "null",
     created_at |-> pair.created_at, updated_at |-> pair.updated_at]

PairIdsOf(pairs) == [n \in 1..Len(pairs) |-> pairs[n].id]

\* a record that loses the pin state
PairGroupToJson_PinDropped(pair_group) ==
    [id |-> pair_group.id, is_pinned |-> FALSE,
     pairs |-> PairIdsOf(pair_group.pairs),
     created_at |-> pair_group.created_at,
     updated_at |-> pair_group.updated_at]

\* serde_json::to_string of the FileSystemPairGroup built from pair_group:
\* pairs is replaced by the ordered list of the pairs' ids
PairGroupToJson(pair_group) ==
    [id |-> pair_group.id, is_pinned |-> pair_group.is_pinned,
     pairs |-> PairIdsOf(pair_group.pairs),
     created_at |-> pair_group.created_at,
     updated_at |-> pair_group.updated_at]

\* a decoder that takes an empty file for a record of defaults
FileSystemPairFromStr_EmptyIsDefault(contents) ==
    IF contents = <<>>
    THEN Ok([id |-> "", base |-> "", comparison |-> "", value |-> "0.0",
             created_at |-> "", updated_at |-> ""])
    ELSE IF contents[1].value = "null" THEN Err(NULL_MESSAGE)
    ELSE Ok(contents[1])

\* serde_json::from_str::<FileSystemPair>
FileSystemPairFromStr(contents) ==
    IF contents = <<>> THEN Err(EOF_MESSAGE)
    ELSE IF contents[1].value = "null" THEN Err(NULL_MESSAGE)
    ELSE Ok(contents[1])

\* serde_json::from_str::<FileSystemPairGroup>
FileSystemPairGroupFromStr(contents) ==
    IF contents = <<>> THEN Err(EOF_MESSAGE) ELSE Ok(contents[1])

\* ------------------------------------------------------------- paths
\* dir.join(id)
Join(dir, id) == <<dir, id>>

Exists(path) == path \in DOMAIN files

\* the names of the entries of a directory
DirEntries(dir) == { p[2] : p \in { q \in DOMAIN files : q[1] = dir } }

\* a write that, with a pair-group record, sweeps the pair files the record
\* does not list
Put_Sweep(path, contents) ==
    LET kept == IF path[1] = PAIR_GROUPS_DIR_NAME /\ contents # <<>>
                THEN { p \in DOMAIN files :
                        \/ p[1] = PAIR_GROUPS_DIR_NAME
                        \/ \E n \in 1..Len(contents[1].pairs) :
                                contents[1].pairs[n] = p[2] }
                ELSE DOMAIN files
    IN  [p \in kept \cup {path} |-> IF p = path THEN contents ELSE files[p]]

\* files with path now holding contents
Put(path, contents) ==
    [p \in DOMAIN files \cup {path} |->
        IF p = path THEN contents ELSE files[p]]

RECURSIVE IdsTextLen(_)
IdsTextLen(ids) ==
    IF ids = <<>> THEN 0 ELSE Len(Head(ids)) + 3 + IdsTextLen(Tail(ids))

\* the length of the JSON text of a file, as far as it varies from one
\* record of the directory to another
TextLen(dir, contents) ==
    IF contents = <<>> THEN 0
    ELSE IF dir = PAIRS_DIR_NAME
    THEN Len(contents[1].id) + Len(contents[1].base)
         + Len(contents[1].comparison) + Len(contents[1].value)
         + Len(contents[1].created_at) + Len(contents[1].updated_at)
    ELSE Len(contents[1].id) + (IF contents[1].is_pinned THEN 4 ELSE 5)
         + IdsTextLen(contents[1].pairs)
         + Len(contents[1].created_at) + Len(contents[1].updated_at)

\* what a file holds after write_all wrote contents from its start: the
\* contents, unless somebody else's longer text was written after this
\* writer's File::create, whose tail then follows the new text
WrittenOver(path, contents) ==
    IF TextLen(path[1], files[path]) <= TextLen(path[1], contents)
    THEN contents ELSE <<>>

\* the orders in which read_dir may yield the entries of a directory
Perms(S) ==
    { s \in [1..Cardinality(S) -> S] :
        \A x \in S : \E n \in 1..Cardinality(S) : s[n] = x }

\* ------------------------------------------------------------- tasks
\* pc: "idle", a position inside an operation, or how the operation ended:
\*   "returned" (result holds the Result), "panicked", "abandoned".
\* Positions of write_pair_group (also reached from update_pair_group):
\*   wp_dir, wp_create, wp_write   write_pair of arg.pairs[i]
\*   wg_dir, wg_create, wg_write   the pair-group record
\* of update_pair_group:  u_dir, u_exists
\* of fetch_pair_groups:  f_dir, f_readdir, then per entry
\*   g_dir, g_open, g_read         read_pair_group of Head(entries)
\*   p_dir, p_open, p_read         read_pair of Head(ids)
NoResult == Err("no result")

Idle ==
    [pc |-> "idle", op |-> "none", arg |-> <<>>, i |-> 0,
     entries |-> <<>>, pair_groups |-> <<>>, pair_group |-> <<>>,
     ids |-> <<>>, result |-> NoResult,
     log |-> <<>>, pred |-> <<>>, snap |-> <<>>]

Running(t) == tasks[t].pc \notin {"idle", "returned", "panicked", "abandoned"}
Ended(t) == tasks[t].pc \in {"returned", "panicked", "abandoned"}

\* whether the next file-system call may fail for a reason of the environment
MayFail == IF faults < MaxFaults THEN {FALSE, TRUE} ELSE {FALSE}

Returns(r, result) == [r EXCEPT !.pc = "returned", !.result = result]

\* write_pair_group that writes the record and no pair
WritePairGroupEntry_RecordOnly(pair_group) == "wg_dir"

\* where write_pair_group starts: the loop over pair_group.pairs, or the
\* record at once when there are no pairs
WritePairGroupEntry(pair_group) ==
    IF Len(pair_group.pairs) = 0 THEN "wg_dir" ELSE "wp_dir"

\* -------------------------------------------------------------- calls
\* A caller starts write_pair_group(root, pair_group).  sequential: the
\* caller records the store and the previous call for the history.
WritePairGroupCall(t, pair_group, sequential) ==
    /\ tasks[t].pc = "idle"
    /\ calls < MaxCalls
    /\ calls' = calls + 1
    /\ tasks' = [tasks EXCEPT ![t] =
            [Idle EXCEPT !.pc = WritePairGroupEntry(pair_group),
                         !.op = "write_pair_group",
                         !.arg = <<pair_group>>, !.i = 1,
                         !.pred = IF sequential THEN history ELSE <<>>,
                         !.snap = IF sequential THEN <<files>> ELSE <<>>]]
    /\ UNCHANGED <<dirs, files, faults, history>>

\* A caller starts update_pair_group(pair_group).
UpdatePairGroupCall(t, pair_group, sequential) ==
    /\ tasks[t].pc = "idle"
    /\ calls < MaxCalls
    /\ calls' = calls + 1
    /\ tasks' = [tasks EXCEPT ![t] =
            [Idle EXCEPT !.pc = "u_dir", !.op = "update_pair_group",
                         !.arg = <<pair_group>>, !.i = 1,
                         !.pred = IF sequential THEN history ELSE <<>>,
                         !.snap = IF sequential THEN <<files>> ELSE <<>>]]
    /\ UNCHANGED <<dirs, files, faults, history>>

\* A caller starts fetch_pair_groups().
FetchPairGroupsCall(t, sequential) ==
    /\ tasks[t].pc = "idle"
    /\ tasks' = [tasks EXCEPT ![t] =
            [Idle EXCEPT !.pc = "f_dir", !.op = "fetch_pair_groups",
                         !.pred = IF sequential THEN history ELSE <<>>,
                         !.snap = IF sequential THEN <<files>> ELSE <<>>]]
    /\ UNCHANGED <<dirs, files, calls, faults, history>>

\* -------------------------------------------------------------- steps
\* the directory a position's ensure_dir names
DirOf(pc) ==
    IF pc \in {"wp_dir", "wp_create", "wp_write", "p_dir", "p_open", "p_read"}
    THEN PAIRS_DIR_NAME ELSE PAIR_GROUPS_DIR_NAME

\* the position after a position's ensure_dir
AfterDir(pc) ==
    CASE pc = "wp_dir" -> "wp_create"
      [] pc = "wg_dir" -> "wg_create"
      [] pc = "u_dir" -> "u_exists"
      [] pc = "f_dir" -> "f_readdir"
      [] pc = "g_dir" -> "g_open"
      [] pc = "p_dir" -> "p_open"

\* ensure_dir that hands a failed create_dir_all to its caller as an Err
EnsureDir_Recoverable(t) ==
    /\ tasks[t].pc \in {"wp_dir", "wg_dir", "u_dir", "f_dir", "g_dir", "p_dir"}
    /\ \E failed \in MayFail :
        \/ /\ ~failed
           /\ dirs' = dirs \cup {DirOf(tasks[t].pc)}
           /\ tasks' = [tasks EXCEPT ![t].pc = AfterDir(tasks[t].pc)]
           /\ UNCHANGED faults
        \/ /\ failed
           /\ faults' = faults + 1
           /\ tasks' = [tasks EXCEPT ![t] = Returns(@, Err(EIO_MESSAGE))]
           /\ UNCHANGED dirs
    /\ UNCHANGED <<files, calls, history>>

\* ensure_dir that leaves the directory it names without entries
EnsureDir_Fresh(t) ==
    /\ tasks[t].pc \in {"wp_dir", "wg_dir", "u_dir", "f_dir", "g_dir", "p_dir"}
    /\ \E failed \in MayFail :
        \/ /\ ~failed
           /\ dirs' = dirs \cup {DirOf(tasks[t].pc)}
           /\ files' = [p \in { q \in DOMAIN files : q[1] # DirOf(tasks[t].pc) }
                            |-> files[p]]
           /\ tasks' = [tasks EXCEPT ![t].pc = AfterDir(tasks[t].pc)]
           /\ UNCHANGED faults
        \/ /\ failed
           /\ faults' = faults + 1
           /\ tasks' = [tasks EXCEPT ![t].pc = "panicked"]
           /\ UNCHANGED <<dirs, files>>
    /\ UNCHANGED <<calls, history>>

\* ensure_dir(root, name): create_dir_all(root/name), which creates the
\* directory if it is absent; a failure is the panic of expect()
EnsureDir(t) ==
    /\ tasks[t].pc \in {"wp_dir", "wg_dir", "u_dir", "f_dir", "g_dir", "p_dir"}
    /\ \E failed \in MayFail :
        \/ /\ ~failed
           /\ dirs' = dirs \cup {DirOf(tasks[t].pc)}
           /\ tasks' = [tasks EXCEPT ![t].pc = AfterDir(tasks[t].pc)]
           /\ UNCHANGED faults
        \/ /\ failed
           /\ faults' = faults + 1
           /\ tasks' = [tasks EXCEPT ![t].pc = "panicked"]
           /\ UNCHANGED dirs
    /\ UNCHANGED <<files, calls, history>>

\* update_pair_group without the existence check: an upsert
UpdateCheckExists_Upsert(t) ==
    /\ tasks[t].pc = "u_exists"
    /\ tasks' = [tasks EXCEPT ![t].pc = WritePairGroupEntry(tasks[t].arg[1])]
    /\ UNCHANGED <<dirs, files, calls, faults, history>>

\* update_pair_group with the existence check inverted
UpdateCheckExists_Inverted(t) ==
    /\ tasks[t].pc = "u_exists"
    /\ LET pair_group == tasks[t].arg[1]
           path == Join(PAIR_GROUPS_DIR_NAME, pair_group.id)
       IN  tasks' = [tasks EXCEPT ![t] =
                IF Exists(path)
                THEN Returns(@, Err(NOT_EXIST_MESSAGE))
                ELSE [@ EXCEPT !.pc = WritePairGroupEntry(pair_group)]]
    /\ UNCHANGED <<dirs, files, calls, faults, history>>

\* update_pair_group after its ensure_dir: the existence check, then
\* the call of write_pair_group
UpdateCheckExists(t) ==
    /\ tasks[t].pc = "u_exists"
    /\ LET pair_group == tasks[t].arg[1]
           path == Join(PAIR_GROUPS_DIR_NAME, pair_group.id)
       IN  tasks' = [tasks EXCEPT ![t] =
                IF ~Exists(path)
                THEN Returns(@, Err(NOT_EXIST_MESSAGE))
                ELSE [@ EXCEPT !.pc = WritePairGroupEntry(pair_group)]]
    /\ UNCHANGED <<dirs, files, calls, faults, history>>

\* the file a write position writes: write_pair's path for pairs[i], or
\* write_pair_group's path for the record
WritePath(r) ==
    IF r.pc \in {"wp_create", "wp_write"}
    THEN Join(PAIRS_DIR_NAME, r.arg[1].pairs[r.i].id)
    ELSE Join(PAIR_GROUPS_DIR_NAME, r.arg[1].id)

\* a record that keeps the pair ids the group had when the call began
WriteContents_Merge(r) ==
    IF r.pc \in {"wp_create", "wp_write"}
    THEN <<PairToJson(r.arg[1].pairs[r.i])>>
    ELSE LET path == Join(PAIR_GROUPS_DIR_NAME, r.arg[1].id)
             old == IF r.snap # <<>> /\ path \in DOMAIN r.snap[1]
                    THEN r.snap[1][path] ELSE <<>>
         IN  <<[PairGroupToJson(r.arg[1]) EXCEPT
                  !.pairs = (IF old = <<>> THEN <<>> ELSE old[1].pairs) \o @]>>

\* and what is written to it: object_contents of write_object_file
WriteContents(r) ==
    IF r.pc \in {"wp_create", "wp_write"}
    THEN <<PairToJson(r.arg[1].pairs[r.i])>>
    ELSE <<PairGroupToJson(r.arg[1])>>

\* write_object_file, File::create(path): the file exists and is empty
FileCreate(t) ==
    /\ tasks[t].pc \in {"wp_create", "wg_create"}
    /\ LET r == tasks[t]
           path == WritePath(r)
       IN  \E failed \in MayFail :
            \/ /\ ~failed
               /\ path[1] \in dirs
               /\ files' = Put(path, <<>>)
               /\ tasks' = [tasks EXCEPT ![t] =
                      [r EXCEPT !.pc = IF r.pc = "wp_create"
                                       THEN "wp_write" ELSE "wg_write",
                                !.log = Append(@, <<"create", path>>)]]
               /\ UNCHANGED faults
            \/ /\ ~failed
               /\ path[1] \notin dirs
               /\ tasks' = [tasks EXCEPT ![t] = Returns(r, Err(ENOENT_MESSAGE))]
               /\ UNCHANGED <<files, faults>>
            \/ /\ failed
               /\ faults' = faults + 1
               /\ tasks' = [tasks EXCEPT ![t] = Returns(r, Err(EIO_MESSAGE))]
               /\ UNCHANGED files
    /\ UNCHANGED <<dirs, calls, history>>

\* a loop of write_pair_group that stops after its first pair
AfterWrite_FirstPairOnly(r) ==
    IF r.pc = "wp_write"
    THEN [r EXCEPT !.i = r.i + 1, !.pc = "wg_dir"]
    ELSE Returns(r, Ok(<<>>))

\* where a task goes after write_object_file returned Ok: the next pair of
\* the loop of write_pair_group, the record, or the return of Ok(())
AfterWrite(r) ==
    IF r.pc = "wp_write"
    THEN [r EXCEPT !.i = r.i + 1,
                   !.pc = IF r.i + 1 > Len(r.arg[1].pairs)
                          THEN "wg_dir" ELSE "wp_dir"]
    ELSE Returns(r, Ok(<<>>))

\* write_all whose failure restores the store the call began with
WriteAll_Rollback(t) ==
    /\ tasks[t].pc \in {"wp_write", "wg_write"}
    /\ LET r == tasks[t]
           path == WritePath(r)
       IN  \E failed \in MayFail :
            \/ /\ ~failed
               /\ files' = Put(path, WrittenOver(path, WriteContents(r)))
               /\ tasks' = [tasks EXCEPT ![t] =
                      AfterWrite([r EXCEPT !.log = Append(@, <<"write", path>>)])]
               /\ UNCHANGED faults
            \/ /\ failed
               /\ faults' = faults + 1
               /\ tasks' = [tasks EXCEPT ![t] = Returns(r, Err(EIO_MESSAGE))]
               /\ files' = IF r.snap = <<>> THEN files ELSE r.snap[1]
    /\ UNCHANGED <<dirs, calls, history>>

\* write_object_file, file.write_all(object_contents): the file holds the
\* document; a failed write leaves it as File::create left it
WriteAll(t) ==
    /\ tasks[t].pc \in {"wp_write", "wg_write"}
    /\ LET r == tasks[t]
           path == WritePath(r)
       IN  \E failed \in MayFail :
            \/ /\ ~failed
               /\ files' = Put(path, WrittenOver(path, WriteContents(r)))
               /\ tasks' = [tasks EXCEPT ![t] =
                      AfterWrite([r EXCEPT !.log = Append(@, <<"write", path>>)])]
               /\ UNCHANGED faults
            \/ /\ failed
               /\ faults' = faults + 1
               /\ tasks' = [tasks EXCEPT ![t] = Returns(r, Err(EIO_MESSAGE))]
               /\ UNCHANGED files
    /\ UNCHANGED <<dirs, calls, history>>

\* get_dir_entries that reports a directory without entries as an error
ReadDir_EmptyIsError(t) ==
    /\ tasks[t].pc = "f_readdir"
    /\ LET r == tasks[t] IN
       \E failed \in MayFail :
        \/ /\ ~failed
           /\ \E dir_entries \in Perms(DirEntries(PAIR_GROUPS_DIR_NAME)) :
                tasks' = [tasks EXCEPT ![t] =
                    IF dir_entries = <<>>
                    THEN Returns(r, Err(ENOENT_MESSAGE))
                    ELSE [r EXCEPT !.pc = "g_dir", !.entries = dir_entries]]
           /\ UNCHANGED faults
        \/ /\ failed
           /\ faults' = faults + 1
           /\ tasks' = [tasks EXCEPT ![t] = Returns(r, Err(EIO_MESSAGE))]
    /\ UNCHANGED <<dirs, files, calls, history>>

\* get_dir_entries after its ensure_dir: read_dir and the collection of the
\* entries, in the order the file system yields them; then the loop of
\* fetch_pair_groups starts, or returns Ok(vec![]) when there is no entry
ReadDir(t) ==
    /\ tasks[t].pc = "f_readdir"
    /\ LET r == tasks[t] IN
       \E failed \in MayFail :
        \/ /\ ~failed
           /\ \E dir_entries \in Perms(DirEntries(PAIR_GROUPS_DIR_NAME)) :
                tasks' = [tasks EXCEPT ![t] =
                    IF dir_entries = <<>>
                    THEN Returns(r, Ok(r.pair_groups))
                    ELSE [r EXCEPT !.pc = "g_dir", !.entries = dir_entries]]
           /\ UNCHANGED faults
        \/ /\ failed
           /\ faults' = faults + 1
           /\ tasks' = [tasks EXCEPT ![t] = Returns(r, Err(EIO_MESSAGE))]
    /\ UNCHANGED <<dirs, files, calls, history>>

\* the file a read position reads: read_pair_group's path for the entry
\* at hand, or read_pair's path for the pair id at hand
ReadPath(r) ==
    IF r.pc \in {"g_open", "g_read"}
    THEN Join(PAIR_GROUPS_DIR_NAME, Head(r.entries))
    ELSE Join(PAIRS_DIR_NAME, Head(r.ids))

\* where fetch_pair_groups goes once pair_group is complete: it is pushed,
\* and the loop takes the next entry or returns Ok(pair_groups)
PushPairGroup(r) ==
    LET pushed == Append(r.pair_groups, r.pair_group[1]) IN
    IF Len(r.entries) = 1
    THEN Returns([r EXCEPT !.pair_groups = pushed, !.pair_group = <<>>,
                           !.entries = <<>>], Ok(pushed))
    ELSE [r EXCEPT !.pc = "g_dir", !.pair_groups = pushed,
                   !.pair_group = <<>>, !.entries = Tail(r.entries)]

\* where read_pair_group goes with its pair_group and the ids still to
\* read: the next read_pair, or its return to fetch_pair_groups
NextPair(r) ==
    IF r.ids = <<>> THEN PushPairGroup(r) ELSE [r EXCEPT !.pc = "p_dir"]

\* File::open whose caller skips a pair that has no file
Opened_SkipMissing(r, path) ==
    IF Exists(path)
    THEN [r EXCEPT !.pc = IF r.pc = "g_open" THEN "g_read" ELSE "p_read"]
    ELSE IF r.pc = "p_open" THEN NextPair([r EXCEPT !.ids = Tail(@)])
    ELSE Returns(r, Err(ENOENT_MESSAGE))

\* where a task goes after File::open(path): on to the read, or out with
\* the error of a missing file
Opened(r, path) ==
    IF Exists(path)
    THEN [r EXCEPT !.pc = IF r.pc = "g_open" THEN "g_read" ELSE "p_read"]
    ELSE Returns(r, Err(ENOENT_MESSAGE))

\* create_object_from_file, File::open(path)
FileOpen(t) ==
    /\ tasks[t].pc \in {"g_open", "p_open"}
    /\ LET r == tasks[t]
           path == ReadPath(r)
       IN  \E failed \in MayFail :
            \/ /\ ~failed
               /\ tasks' = [tasks EXCEPT ![t] = Opened(r, path)]
               /\ UNCHANGED faults
            \/ /\ failed
               /\ faults' = faults + 1
               /\ tasks' = [tasks EXCEPT ![t] = Returns(r, Err(EIO_MESSAGE))]
    /\ UNCHANGED <<dirs, files, calls, history>>

\* pairs collected in reverse
PushPair_Front(pairs, pair) == <<pair>> \o pairs

\* pair_group.pairs.push(pair)
PushPair(pairs, pair) == Append(pairs, pair)

\* read_pair_group: file.read_to_string, serde_json::from_str, and the
\* PairGroup built from the record, its pairs still empty
ReadPairGroupFile(t) ==
    /\ tasks[t].pc = "g_read"
    /\ LET r == tasks[t]
           fs_pair_group == FileSystemPairGroupFromStr(files[ReadPath(r)])
       IN  \E failed \in MayFail :
            \/ /\ ~failed
               /\ tasks' = [tasks EXCEPT ![t] =
                      IF ~fs_pair_group.ok
                      THEN Returns(r, Err(fs_pair_group.message))
                      ELSE NextPair([r EXCEPT
                            !.pair_group =
                                <<[id |-> fs_pair_group.val[1].id,
                                   pairs |-> <<>>,
                                   is_pinned |-> fs_pair_group.val[1].is_pinned,
                                   created_at |-> fs_pair_group.val[1].created_at,
                                   updated_at |-> fs_pair_group.val[1].updated_at]>>,
                            !.ids = fs_pair_group.val[1].pairs])]
               /\ UNCHANGED faults
            \/ /\ failed
               /\ faults' = faults + 1
               /\ tasks' = [tasks EXCEPT ![t] = Returns(r, Err(EIO_MESSAGE))]
    /\ UNCHANGED <<dirs, files, calls, history>>

\* read_pair: file.read_to_string, serde_json::from_str, and the Pair
\* built from the record, pushed onto pair_group.pairs
ReadPairFile(t) ==
    /\ tasks[t].pc = "p_read"
    /\ LET r == tasks[t]
           fs_pair == FileSystemPairFromStr(files[ReadPath(r)])
       IN  \E failed \in MayFail :
            \/ /\ ~failed
               /\ tasks' = [tasks EXCEPT ![t] =
                      IF ~fs_pair.ok
                      THEN Returns(r, Err(fs_pair.message))
                      ELSE NextPair([r EXCEPT
                            !.pair_group[1].pairs = PushPair(@,
                                [id |-> fs_pair.val[1].id,
                                 base |-> fs_pair.val[1].base,
                                 value |-> fs_pair.val[1].value,
                                 comparison |-> fs_pair.val[1].comparison,
                                 created_at |-> fs_pair.val[1].created_at,
                                 updated_at |-> fs_pair.val[1].updated_at]),
                            !.ids = Tail(r.ids)])]
               /\ UNCHANGED faults
            \/ /\ failed
               /\ faults' = faults + 1
               /\ tasks' = [tasks EXCEPT ![t] = Returns(r, Err(EIO_MESSAGE))]
    /\ UNCHANGED <<dirs, files, calls, history>>

\* ----------------------------------------------------- ends of a call
\* The caller takes the outcome.  The history keeps each write/update call
\* that returned Ok, and the fact that one did not.
Return(t) ==
    /\ Ended(t)
    /\ history' =
         IF tasks[t].op = "fetch_pair_groups" THEN history
         ELSE IF tasks[t].result.ok
         THEN Append(history, [op |-> tasks[t].op, arg |-> tasks[t].arg])
         ELSE Append(history, [op |-> "failed", arg |-> <<>>])
    /\ tasks' = [tasks EXCEPT ![t] = Idle]
    /\ UNCHANGED <<dirs, files, calls, faults>>

\* An operation in flight is abandoned where it stands (its process or
\* thread dies); what it wrote so far stays.
Abandon(t) ==
    /\ Running(t)
    /\ faults < MaxFaults
    /\ faults' = faults + 1
    /\ tasks' = [tasks EXCEPT ![t].pc = "abandoned"]
    /\ UNCHANGED <<dirs, files, calls, history>>

\* ---------------------------------------------------- specifications
Init ==
    /\ dirs = {}
    /\ files = << >>
    /\ tasks = [t \in Tasks |-> Idle]
    /\ calls = 0
    /\ faults = 0
    /\ history = <<>>

ReadStep(t) ==
    \/ EnsureDir(t)
    \/ ReadDir(t)
    \/ FileOpen(t)
    \/ ReadPairGroupFile(t)
    \/ ReadPairFile(t)
    \/ Return(t)
    \/ Abandon(t)

Step(t) ==
    \/ ReadStep(t)
    \/ UpdateCheckExists(t)
    \/ FileCreate(t)
    \/ WriteAll(t)

\* One caller, one operation at a time, from an empty store.
Next ==
    \/ \E pair_group \in PairGroups : WritePairGroupCall(1, pair_group, TRUE)
    \/ \E pair_group \in PairGroups : UpdatePairGroupCall(1, pair_group, TRUE)
    \/ FetchPairGroupsCall(1, TRUE)
    \/ Step(1)

Spec == Init /\ [][Next]_vars

\* Two callers whose operations interleave at every file-system call, from
\* an empty store; at most one of them is fetching.
FirstIdle(t) == \A u \in Tasks : tasks[u].pc = "idle" => t <= u

NextConc ==
    \E t \in Tasks :
        \/ \E pair_group \in ConcPairGroups :
            FirstIdle(t) /\ WritePairGroupCall(t, pair_group, FALSE)
        \/ \E pair_group \in ConcPairGroups :
            FirstIdle(t) /\ UpdatePairGroupCall(t, pair_group, FALSE)
        \/ /\ FirstIdle(t)
           /\ \A u \in Tasks : tasks[u].op # "fetch_pair_groups"
           /\ FetchPairGroupsCall(t, FALSE)
        \/ Step(t)

SpecConc == Init /\ [][NextConc]_vars

\* The same two callers, from the store that one write_pair_group of Seed
\* into the empty store leaves.
Seed == MkPairGroup("pg1", FALSE, <<MkPair("p1", "BTC", "1.0", "t0")>>)

SeedFiles ==
    [path \in {Join(PAIRS_DIR_NAME, "p1"), Join(PAIR_GROUPS_DIR_NAME, "pg1")} |->
        IF path[1] = PAIRS_DIR_NAME
        THEN <<PairToJson(Seed.pairs[1])>> ELSE <<PairGroupToJson(Seed)>>]

InitSeeded ==
    /\ dirs = {PAIRS_DIR_NAME, PAIR_GROUPS_DIR_NAME}
    /\ files = SeedFiles
    /\ tasks = [t \in Tasks |-> Idle]
    /\ calls = 0
    /\ faults = 0
    /\ history = <<[op |-> "write_pair_group", arg |-> <<Seed>>]>>

SpecSeeded == InitSeeded /\ [][NextConc]_vars

\* The store as a caller may find it: whatever earlier runs, other programs
\* or the user left below the root.  Only fetch_pair_groups is called.
Paths ==
    { Join(PAIRS_DIR_NAME, id) : id \in PairIds }
        \cup { Join(PAIR_GROUPS_DIR_NAME, id) : id \in GroupIds }

Absent == <<[absent |-> TRUE]>>

FoundContents(path) ==
    IF path[1] = PAIRS_DIR_NAME
    THEN {Absent, <<>>} \cup { <<PairToJson(pair)>> : pair \in Pairs }
    ELSE {Absent, <<>>} \cup
         { <<PairGroupToJson(MkPairGroup(path[2], pin, pairs))>> :
             pin \in BOOLEAN, pairs \in SeqsUpTo(Pairs, MaxPairs) }

RECURSIVE StoresOver(_)
StoresOver(paths) ==
    IF paths = {} THEN { << >> }
    ELSE LET path == CHOOSE p \in paths : TRUE IN
         { [p \in DOMAIN f \cup (IF c = Absent THEN {} ELSE {path}) |->
               IF p = path THEN c ELSE f[p]] :
             f \in StoresOver(paths \ {path}), c \in FoundContents(path) }

FoundStores == StoresOver(Paths)

InitFound ==
    /\ files \in FoundStores
    /\ dirs = { p[1] : p \in DOMAIN files }
    /\ tasks = [t \in Tasks |-> Idle]
    /\ calls = 0
    /\ faults = 0
    /\ history = <<>>

NextFound ==
    \/ FetchPairGroupsCall(1, TRUE)
    \/ ReadStep(1)

SpecFound == InitFound /\ [][NextFound]_vars

\* One caller again, from the store that write_pair_group of Seed and then
\* of SharedB into the empty store leave: two groups that list pair p1.
SharedB ==
    MkPairGroup("pg2", TRUE, <<MkPair("p1", "BTC", "1.0", "t0"),
                               MkPair("p2", "ETH", "2.0", "t0")>>)

SharedFiles ==
    [path \in Paths |->
        IF path[1] = PAIRS_DIR_NAME
        THEN <<PairToJson(SharedB.pairs[IF path[2] = "p1" THEN 1 ELSE 2])>>
        ELSE <<PairGroupToJson(IF path[2] = "pg1" THEN Seed ELSE SharedB)>>]

InitShared ==
    /\ dirs = {PAIRS_DIR_NAME, PAIR_GROUPS_DIR_NAME}
    /\ files = SharedFiles
    /\ tasks = [t \in Tasks |-> Idle]
    /\ calls = 0
    /\ faults = 0
    /\ history = <<[op |-> "write_pair_group", arg |-> <<Seed>>],
                   [op |-> "write_pair_group", arg |-> <<SharedB>>]>>

SpecShared == InitShared /\ [][Next]_vars

\* Two callers whose update_pair_group calls interleave at every
\* file-system call, from the seeded store; fetch_pair_groups runs alone:
\* it is called only while no other operation is in flight, and no update
\* is called while it runs.
NextUpdates ==
    \E t \in Tasks :
        \/ \E pair_group \in ConcPairGroups :
            /\ FirstIdle(t)
            /\ \A u \in Tasks : tasks[u].op # "fetch_pair_groups"
            /\ UpdatePairGroupCall(t, pair_group, FALSE)
        \/ /\ \A u \in Tasks : tasks[u].pc = "idle"
           /\ FirstIdle(t)
           /\ FetchPairGroupsCall(t, TRUE)
        \/ Step(t)

SpecUpdates == InitSeeded /\ [][NextUpdates]_vars

\* ------------------------------------------------------------ claims
Last(seq) == seq[Len(seq)]

\* a fetch_pair_groups of task t that has returned, without a failure of
\* the environment, after the calls of before, none of which failed
FetchedAfter(t, before) ==
    /\ tasks[t].op = "fetch_pair_groups"
    /\ tasks[t].pc = "returned"
    /\ tasks[t].result.message # EIO_MESSAGE
    /\ tasks[t].pred = before
    /\ \A n \in 1..Len(before) : before[n].op # "failed"

Contains(result, pair_group) ==
    /\ result.ok
    /\ \E n \in 1..Len(result.val[1]) : result.val[1][n] = pair_group

\* C1 (round trip): once write_pair_group(g) has returned Ok, for any pair
\* group g, fetch_pair_groups returns Ok and its result contains a group
\* equal to g in every field, pairs included.
C1_RoundTrip ==
    \A t \in Tasks :
        ( /\ FetchedAfter(t, tasks[t].pred)
          /\ tasks[t].pred # <<>>
          /\ Last(tasks[t].pred).op = "write_pair_group" )
        => Contains(tasks[t].result, Last(tasks[t].pred).arg[1])

\* C2 (update replaces): if a record with g.id exists, then after
\* update_pair_group(g) returned Ok, reading the group yields exactly g,
\* for any g.
C2_UpdateReplaces ==
    \A t \in Tasks :
        ( /\ FetchedAfter(t, tasks[t].pred)
          /\ tasks[t].pred # <<>>
          /\ Last(tasks[t].pred).op = "update_pair_group" )
        => Contains(tasks[t].result, Last(tasks[t].pred).arg[1])

\* an update_pair_group of task t, called by a sequential caller when no
\* record of its group existed
UpdateOfMissing(t) ==
    /\ tasks[t].op = "update_pair_group"
    /\ tasks[t].snap # <<>>
    /\ Join(PAIR_GROUPS_DIR_NAME, tasks[t].arg[1].id) \notin DOMAIN tasks[t].snap[1]

\* C3 (update requires existence): update_pair_group(g), called when no
\* record with g.id exists, writes nothing at any point (every file is as
\* it was when the call began) and, when it returns, returns the "does not
\* exist" error.
C3_UpdateRequiresExistence ==
    \A t \in Tasks :
        UpdateOfMissing(t) =>
            /\ files = tasks[t].snap[1]
            /\ tasks[t].log = <<>>
            /\ tasks[t].pc = "returned" =>
                    tasks[t].result = Err(NOT_EXIST_MESSAGE)

\* C3's case: the update of a missing group has returned its error, in a
\* store that holds a pair file named by g.pairs with other contents
C3_Witness ==
    \E t \in Tasks :
        /\ UpdateOfMissing(t)
        /\ tasks[t].pc = "returned"
        /\ tasks[t].result = Err(NOT_EXIST_MESSAGE)
        /\ \E n \in 1..Len(tasks[t].arg[1].pairs) :
            LET pair == tasks[t].arg[1].pairs[n] IN
            /\ Join(PAIRS_DIR_NAME, pair.id) \in DOMAIN files
            /\ files[Join(PAIRS_DIR_NAME, pair.id)] # <<PairToJson(pair)>>

\* a readable pair-group record lists a pair id that has no pair file
Dangling ==
    \E id \in GroupIds :
        LET path == Join(PAIR_GROUPS_DIR_NAME, id) IN
        /\ path \in DOMAIN files
        /\ files[path] # <<>>
        /\ \E n \in 1..Len(files[path][1].pairs) :
            Join(PAIRS_DIR_NAME, files[path][1].pairs[n]) \notin DOMAIN files

\* C4 (referential integrity on read): when a pair-group record lists a
\* pair id that has no pair file, fetch_pair_groups does not return Ok.
C4_ReferentialIntegrityOnRead ==
    \A t \in Tasks :
        ( /\ tasks[t].op = "fetch_pair_groups"
          /\ tasks[t].pc = "returned"
          /\ Dangling )
        => ~tasks[t].result.ok

\* C4's case: fetch_pair_groups has hydrated one group and has then
\* returned the error of the missing pair file of another
C4_Witness ==
    \E t \in Tasks :
        /\ tasks[t].op = "fetch_pair_groups"
        /\ tasks[t].pc = "returned"
        /\ Dangling
        /\ tasks[t].result = Err(ENOENT_MESSAGE)
        /\ tasks[t].pair_groups # <<>>
        /\ tasks[t].ids # <<>>

\* C5 (count): from an empty store, after N pair groups with pairwise
\* distinct ids have been written, fetch_pair_groups returns exactly N
\* entries, one per written id.
C5_Count ==
    \A t \in Tasks :
        LET before == tasks[t].pred IN
        ( /\ FetchedAfter(t, before)
          /\ \A n \in 1..Len(before) : before[n].op = "write_pair_group"
          /\ \A n, m \in 1..Len(before) :
                before[n].arg[1].id = before[m].arg[1].id => n = m )
        => /\ tasks[t].result.ok
           /\ Len(tasks[t].result.val[1]) = Len(before)
           /\ \A n \in 1..Len(before) :
                \E k \in 1..Len(before) :
                    tasks[t].result.val[1][k].id = before[n].arg[1].id

\* C6 (referential invariant): in every state reached from an empty store
\* by interleaved write_pair_group, update_pair_group and fetch_pair_groups
\* steps, failed and abandoned operations included, every pair id listed in
\* a pair-group record has a file in the pairs directory.
C6_ReferentialInvariant == ~Dangling

\* C6's case: a record lists a pair while one operation has failed or was
\* abandoned and two others are in flight
C6_Witness ==
    /\ faults > 0
    /\ \A t \in Tasks : Running(t)
    /\ \E id \in GroupIds :
        LET path == Join(PAIR_GROUPS_DIR_NAME, id) IN
        /\ path \in DOMAIN files
        /\ files[path] # <<>>
        /\ files[path][1].pairs # <<>>

\* the file-system calls one write_pair_group(pair_group) makes, in order
RECURSIVE PairWrites(_)
PairWrites(pairs) ==
    IF pairs = <<>> THEN <<>>
    ELSE << <<"create", Join(PAIRS_DIR_NAME, Head(pairs).id)>>,
            <<"write", Join(PAIRS_DIR_NAME, Head(pairs).id)>> >>
         \o PairWrites(Tail(pairs))

IsPrefix(s, u) == Len(s) <= Len(u) /\ \A n \in 1..Len(s) : s[n] = u[n]

\* C7 (write order): within one write_pair_group or update_pair_group
\* execution the pairs are written in the order of g.pairs, and the record
\* g.id is written only after the last of them; no pair is written after it.
C7_WriteOrder ==
    \A t \in Tasks :
        tasks[t].op \in {"write_pair_group", "update_pair_group"} =>
            LET pair_group == tasks[t].arg[1]
                record == Join(PAIR_GROUPS_DIR_NAME, pair_group.id)
                all == PairWrites(pair_group.pairs)
                         \o << <<"create", record>>, <<"write", record>> >>
            IN  /\ IsPrefix(tasks[t].log, all)
                /\ (tasks[t].pc = "returned" /\ tasks[t].result.ok)
                        => tasks[t].log = all

\* C7's case: an update_pair_group of two different pairs has returned Ok
C7_Witness ==
    \E t \in Tasks :
        /\ tasks[t].op = "update_pair_group"
        /\ tasks[t].pc = "returned"
        /\ tasks[t].result.ok
        /\ Len(tasks[t].arg[1].pairs) = MaxPairs
        /\ tasks[t].arg[1].pairs[1].id # tasks[t].arg[1].pairs[MaxPairs].id

\* C8 (update is not an upsert): no step of an update_pair_group changes
\* the set of ids in the pair_groups directory, nor the record of a group
\* other than its argument's.
C8_UpdateNotUpsert ==
    [][ \A t \in Tasks :
          (tasks[t].op = "update_pair_group" /\ tasks'[t] # tasks[t]) =>
             /\ DirEntries(PAIR_GROUPS_DIR_NAME)' = DirEntries(PAIR_GROUPS_DIR_NAME)
             /\ \A id \in DirEntries(PAIR_GROUPS_DIR_NAME) \ {tasks[t].arg[1].id} :
                    files'[Join(PAIR_GROUPS_DIR_NAME, id)]
                        = files[Join(PAIR_GROUPS_DIR_NAME, id)] ]_vars

\* C8's case: an update_pair_group has written its record and returned Ok
\* while the record of another group is in the store
C8_Witness ==
    \E t \in Tasks :
        /\ tasks[t].op = "update_pair_group"
        /\ tasks[t].pc = "returned"
        /\ tasks[t].result.ok
        /\ DirEntries(PAIR_GROUPS_DIR_NAME) \ {tasks[t].arg[1].id} # {}
        /\ files[Join(PAIR_GROUPS_DIR_NAME, tasks[t].arg[1].id)]
                = <<PairGroupToJson(tasks[t].arg[1])>>

\* a write_pair_group of task t that repeats, argument for argument, the
\* write_pair_group that returned Ok just before it
Rewrite(t) ==
    /\ tasks[t].op = "write_pair_group"
    /\ tasks[t].pred # <<>>
    /\ Last(tasks[t].pred) = [op |-> "write_pair_group", arg |-> tasks[t].arg]

\* C9 (idempotent re-write): writing the same pair group a second time
\* leaves every pair file and every record as the first write left them.
C9_IdempotentRewrite ==
    \A t \in Tasks :
        (Rewrite(t) /\ tasks[t].pc = "returned" /\ tasks[t].result.ok)
            => files = tasks[t].snap[1]

\* C9's case: the second write of a group with pairs has returned Ok
C9_Witness ==
    \E t \in Tasks :
        /\ Rewrite(t)
        /\ tasks[t].pc = "returned"
        /\ tasks[t].result.ok
        /\ Len(tasks[t].arg[1].pairs) = MaxPairs

\* pair_group is the hydration of the record of its id: as many pairs as
\* the record lists ids, the n-th being what the file of the n-th id holds
Hydrated(pair_group) ==
    LET path == Join(PAIR_GROUPS_DIR_NAME, pair_group.id)
        ids == files[path][1].pairs
    IN  /\ Len(pair_group.pairs) = Len(ids)
        /\ \A n \in 1..Len(ids) :
            files[Join(PAIRS_DIR_NAME, ids[n])] = <<PairToJson(pair_group.pairs[n])>>

\* C10 (hydration order): every group fetch_pair_groups collects or returns
\* has, as its n-th pair, the pair read from the file named by the n-th id
\* of the group's record, and as many pairs as the record lists ids.
C10_HydrationOrder ==
    \A t \in Tasks :
        /\ \A n \in 1..Len(tasks[t].pair_groups) :
                Hydrated(tasks[t].pair_groups[n])
        /\ tasks[t].op = "fetch_pair_groups" /\ tasks[t].result.ok =>
                \A n \in 1..Len(tasks[t].result.val[1]) :
                    Hydrated(tasks[t].result.val[1][n])

\* C10's case: a returned group lists one id twice, another lists two ids
\* whose files hold different pairs
C10_Witness ==
    \E t \in Tasks :
        /\ tasks[t].op = "fetch_pair_groups"
        /\ tasks[t].pc = "returned"
        /\ tasks[t].result.ok
        /\ \E n, m \in 1..Len(tasks[t].result.val[1]) :
            LET a == tasks[t].result.val[1][n]
                b == tasks[t].result.val[1][m]
                ids == files[Join(PAIR_GROUPS_DIR_NAME, b.id)][1].pairs
            IN  /\ Len(a.pairs) = MaxPairs
                /\ a.pairs[1] = a.pairs[MaxPairs]
                /\ Len(b.pairs) = MaxPairs
                /\ ids[1] # ids[MaxPairs]
                /\ b.pairs[1] # b.pairs[MaxPairs]

\* the positions of fetch_pair_groups after its first ensure_dir returned
PastFetchDir(t) ==
    /\ tasks[t].op = "fetch_pair_groups"
    /\ tasks[t].pc \in {"f_readdir", "g_dir", "g_open", "g_read",
                        "p_dir", "p_open", "p_read", "returned"}

\* C11 (empty store): fetch_pair_groups has created the pair_groups
\* directory once its ensure_dir returned, and, when the directory holds no
\* entry and no file-system call fails, it returns Ok with an empty
\* collection.
C11_EmptyStore ==
    \A t \in Tasks :
        /\ PastFetchDir(t) => PAIR_GROUPS_DIR_NAME \in dirs
        /\ ( /\ tasks[t].op = "fetch_pair_groups"
             /\ tasks[t].pc = "returned"
             /\ tasks[t].result.message # EIO_MESSAGE
             /\ DirEntries(PAIR_GROUPS_DIR_NAME) = {} )
           => tasks[t].result = Ok(<<>>)

\* C11's case: fetch_pair_groups has returned the empty collection from a
\* store that holds pair files and no pair-group record
C11_Witness ==
    \E t \in Tasks :
        /\ tasks[t].op = "fetch_pair_groups"
        /\ tasks[t].pc = "returned"
        /\ tasks[t].result = Ok(<<>>)
        /\ DirEntries(PAIR_GROUPS_DIR_NAME) = {}
        /\ DirEntries(PAIRS_DIR_NAME) # {}
        /\ PAIR_GROUPS_DIR_NAME \in dirs

\* fetch_pair_groups of task t has returned Ok, and the only call that has
\* changed the seeded store since is the update_pair_group of task u, which
\* is in flight or has ended
FetchedBesideUpdate(t, u) ==
    /\ tasks[t].op = "fetch_pair_groups"
    /\ tasks[t].pc = "returned"
    /\ tasks[t].result.ok
    /\ tasks[u].op = "update_pair_group"
    /\ calls = 1
    /\ history = <<[op |-> "write_pair_group", arg |-> <<Seed>>]>>

\* pair_group is the old record hydrated pair by pair from the old content
\* or from the content new carries for the same pair id
OldListNewPairs(pair_group, old, new) ==
    /\ pair_group = [old EXCEPT !.pairs = pair_group.pairs]
    /\ Len(pair_group.pairs) = Len(old.pairs)
    /\ \A n \in 1..Len(old.pairs) :
        \/ pair_group.pairs[n] = old.pairs[n]
        \/ \E k \in 1..Len(new.pairs) :
            /\ new.pairs[k].id = old.pairs[n].id
            /\ pair_group.pairs[n] = new.pairs[k]

\* pair_group is an intermediate state of the update of old to new
Intermediate(pair_group, old, new) ==
    /\ pair_group.id = new.id
    /\ pair_group # old
    /\ pair_group # new

\* C12 (no isolation between list and update): a fetch_pair_groups that
\* interleaves with update_pair_group(g) on the stored group can return
\* for g.id a group that is neither the stored group nor g; every group it
\* returns for g.id is g, or the stored record hydrated with pair contents
\* that are the stored ones or the ones the update has already written.
C12_NoIsolation ==
    \A t, u \in Tasks :
        FetchedBesideUpdate(t, u) =>
            \A n \in 1..Len(tasks[t].result.val[1]) :
                LET pair_group == tasks[t].result.val[1][n]
                    g == tasks[u].arg[1]
                IN  pair_group.id = g.id =>
                        \/ pair_group = g
                        \/ OldListNewPairs(pair_group, Seed, g)

\* C12's case: the fetch has returned, for the id of the update in flight,
\* a group that is neither the stored one nor the update's argument
C12_Witness ==
    \E t, u \in Tasks :
        /\ FetchedBesideUpdate(t, u)
        /\ Running(u)
        /\ \E n \in 1..Len(tasks[t].result.val[1]) :
            Intermediate(tasks[t].result.val[1][n], Seed, tasks[u].arg[1])

\* what a store holds at path
FileOr(store, path) == IF path \in DOMAIN store THEN store[path] ELSE Absent

\* an update_pair_group of task t, by a sequential caller, has passed the
\* existence check and has returned the error of a failed write of one of
\* its pairs
FailedPairWrite(t) ==
    /\ tasks[t].op = "update_pair_group"
    /\ tasks[t].snap # <<>>
    /\ tasks[t].pc = "returned"
    /\ ~tasks[t].result.ok
    /\ tasks[t].result.message # NOT_EXIST_MESSAGE
    /\ Len(tasks[t].log) < 2 * Len(tasks[t].arg[1].pairs)

\* the position in g.pairs of the pair whose write failed, and whether its
\* File::create had succeeded
FailedAt(t) == (Len(tasks[t].log) \div 2) + 1
FailedAfterCreate(t) == Len(tasks[t].log) % 2 = 1

\* C13 as stated (no rollback on a failed update): when the write of the
\* k-th pair fails, the record holds its pre-call content and the file of
\* each of the pairs 1..k-1 holds that pair's content from g.
C13_NoRollbackAsStated ==
    \A t \in Tasks :
        FailedPairWrite(t) =>
            LET g == tasks[t].arg[1]
                record == Join(PAIR_GROUPS_DIR_NAME, g.id)
            IN  /\ files[record] = tasks[t].snap[1][record]
                /\ \A j \in 1..(FailedAt(t) - 1) :
                    files[Join(PAIRS_DIR_NAME, g.pairs[j].id)]
                        = <<PairToJson(g.pairs[j])>>

\* C13 (no rollback on a failed update): when the write of the k-th pair of
\* an update_pair_group(g) fails, the call has made no file-system call
\* after the failed one, every pair-group record holds its pre-call content,
\* the file of the k-th pair is empty if its File::create had succeeded,
\* every other pair file named by the pairs 1..k-1 holds the content of the
\* last of them with its id, and every remaining pair file is as it was.
C13_NoRollback ==
    \A t \in Tasks :
        FailedPairWrite(t) =>
            LET g == tasks[t].arg[1]
                k == FailedAt(t)
                before == tasks[t].snap[1]
            IN  /\ IsPrefix(tasks[t].log, PairWrites(g.pairs))
                /\ \A id \in GroupIds :
                    FileOr(files, Join(PAIR_GROUPS_DIR_NAME, id))
                        = FileOr(before, Join(PAIR_GROUPS_DIR_NAME, id))
                /\ \A id \in PairIds :
                    LET path == Join(PAIRS_DIR_NAME, id)
                        written == { j \in 1..(k - 1) : g.pairs[j].id = id }
                    IN  IF id = g.pairs[k].id /\ FailedAfterCreate(t)
                        THEN FileOr(files, path) = <<>>
                        ELSE IF written # {}
                        THEN \E j \in written :
                                /\ \A m \in written : m <= j
                                /\ FileOr(files, path) = <<PairToJson(g.pairs[j])>>
                        ELSE FileOr(files, path) = FileOr(before, path)

\* C13's case: the write of the second pair failed after its File::create,
\* and the file of the first pair holds new content
C13_Witness ==
    \E t \in Tasks :
        /\ FailedPairWrite(t)
        /\ FailedAt(t) = 2
        /\ FailedAfterCreate(t)
        /\ tasks[t].arg[1].pairs[1].id # tasks[t].arg[1].pairs[2].id
        /\ LET path == Join(PAIRS_DIR_NAME, tasks[t].arg[1].pairs[1].id)
           IN  /\ files[path] = <<PairToJson(tasks[t].arg[1].pairs[1])>>
               /\ FileOr(tasks[t].snap[1], path) # files[path]

\* task t is about to read and decode a file that holds no complete
\* document: its writer is between File::create and write_all or stopped
\* there, or two writers' texts overlap in it
ReadsTruncated(t) ==
    /\ tasks[t].pc \in {"g_read", "p_read"}
    /\ files[ReadPath(tasks[t])] = <<>>

\* C14 (truncate-then-write visibility): a fetch_pair_groups that reads a
\* pair file or a pair-group file between the File::create and the
\* write_all of somebody's write returns the decode error, unless the read
\* itself fails or the fetch is abandoned.
C14_TruncateThenWrite ==
    [][ \A t \in Tasks :
          ( /\ ReadsTruncated(t)
            /\ tasks'[t] # tasks[t]
            /\ tasks'[t].pc # "abandoned"
            /\ tasks'[t].result.message # EIO_MESSAGE )
          => /\ tasks'[t].pc = "returned"
             /\ tasks'[t].result = Err(EOF_MESSAGE) ]_vars

\* C14's case: the fetch has returned the decode error, and the update
\* that was the only call to touch the readable seeded store has returned
\* Ok and left every file complete
C14_Witness ==
    \E t, u \in Tasks :
        /\ tasks[t].op = "fetch_pair_groups"
        /\ tasks[t].pc = "returned"
        /\ tasks[t].result = Err(EOF_MESSAGE)
        /\ tasks[u].op = "update_pair_group"
        /\ tasks[u].pc = "returned"
        /\ tasks[u].result.ok
        /\ calls = 1
        /\ history = <<[op |-> "write_pair_group", arg |-> <<Seed>>]>>
        /\ \A path \in DOMAIN files : files[path] # <<>>
        /\ ~Dangling

\* the pairs a returned collection shows, whatever group shows them
ShownPairs(pair_groups) ==
    UNION { { pair_groups[n].pairs[i] : i \in 1..Len(pair_groups[n].pairs) } :
            n \in 1..Len(pair_groups) }

\* the pair g carries last for id, as a set: empty when g carries none
CarriedLast(g, id) ==
    { g.pairs[k] : k \in { j \in 1..Len(g.pairs) :
        /\ g.pairs[j].id = id
        /\ \A m \in (j + 1)..Len(g.pairs) : g.pairs[m].id # id } }

\* C15 (pair content is owned by the pair file): after update_pair_group(g)
\* has returned Ok, fetch_pair_groups returns Ok, and every other group
\* that lists a pair id g carries shows that pair with the values g carries;
\* and all groups one sequential fetch returns show one content per pair id.
C15_PairOwnedByFile ==
    \A t \in Tasks :
        /\ ( /\ FetchedAfter(t, tasks[t].pred)
             /\ tasks[t].pred # <<>>
             /\ Last(tasks[t].pred).op = "update_pair_group" )
           => /\ tasks[t].result.ok
              /\ LET g == Last(tasks[t].pred).arg[1] IN
                 \A n \in 1..Len(tasks[t].result.val[1]) :
                    LET pair_group == tasks[t].result.val[1][n] IN
                    \A i \in 1..Len(pair_group.pairs) :
                        \A pair \in CarriedLast(g, pair_group.pairs[i].id) :
                            pair_group.pairs[i] = pair
        /\ ( /\ tasks[t].op = "fetch_pair_groups"
             /\ tasks[t].snap # <<>>
             /\ tasks[t].pc = "returned"
             /\ tasks[t].result.ok )
           => \A a, b \in ShownPairs(tasks[t].result.val[1]) :
                    a.id = b.id => a = b

\* fetch_pair_groups of task t began after two update_pair_group calls on
\* the seeded group had returned Ok, and has returned without a failure of
\* the environment
FetchedAfterTwoUpdates(t) ==
    /\ FetchedAfter(t, tasks[t].pred)
    /\ Len(tasks[t].pred) = 3
    /\ tasks[t].pred[2].op = "update_pair_group"
    /\ tasks[t].pred[3].op = "update_pair_group"
    /\ tasks[t].pred[2].arg[1].id = tasks[t].pred[3].arg[1].id

RecordOfWithPairsOf(pair_group, g, g1, g2) ==
    /\ pair_group = [g EXCEPT !.pairs = pair_group.pairs]
    /\ PairIdsOf(pair_group.pairs) = PairIdsOf(g.pairs)
    /\ \A n \in 1..Len(pair_group.pairs) :
        \/ \E k \in 1..Len(g1.pairs) : pair_group.pairs[n] = g1.pairs[k]
        \/ \E k \in 1..Len(g2.pairs) : pair_group.pairs[n] = g2.pairs[k]

CarriedIds(pair_group) ==
    { pair_group.pairs[n].id : n \in 1..Len(pair_group.pairs) }

\* C17 (pair files are never removed): no step of any operation removes a
\* name from the pairs directory, and no step of a write_pair_group(g) or
\* update_pair_group(g) changes a pair file whose id g.pairs does not
\* carry: a pair the update drops from its group keeps its file and content.
C17_PairFilesStay ==
    [][ /\ DirEntries(PAIRS_DIR_NAME) \subseteq DirEntries(PAIRS_DIR_NAME)'
        /\ \A t \in Tasks :
            ( /\ tasks[t].op \in {"write_pair_group", "update_pair_group"}
              /\ tasks'[t] # tasks[t] )
            => \A id \in PairIds \ CarriedIds(tasks[t].arg[1]) :
                    FileOr(files, Join(PAIRS_DIR_NAME, id))'
                        = FileOr(files, Join(PAIRS_DIR_NAME, id)) ]_vars

\* C17's case: an update_pair_group has returned Ok and its record no
\* longer lists the seeded pair, whose file holds what it held
C17_Witness ==
    \E t \in Tasks :
        /\ tasks[t].op = "update_pair_group"
        /\ tasks[t].pc = "returned"
        /\ tasks[t].result.ok
        /\ tasks[t].arg[1].id = Seed.id
        /\ tasks[t].arg[1].pairs # <<>>
        /\ Seed.pairs[1].id \notin CarriedIds(tasks[t].arg[1])
        /\ files[Join(PAIR_GROUPS_DIR_NAME, Seed.id)]
                = <<PairGroupToJson(tasks[t].arg[1])>>
        /\ files[Join(PAIRS_DIR_NAME, Seed.pairs[1].id)]
                = <<PairToJson(Seed.pairs[1])>>

\* C18 (fetch_pair_groups is read-only): no step of a fetch_pair_groups,
\* whether it goes on to return Ok or an error, changes the content or the
\* name of any pair file or pair-group file; the only thing a step may add
\* is the pairs or the pair_groups directory.
C18_FetchReadOnly ==
    [][ \A t \in Tasks :
          ( /\ tasks[t].op = "fetch_pair_groups"
            /\ tasks'[t] # tasks[t] )
          => /\ files' = files
             /\ dirs \subseteq dirs'
             /\ dirs' \subseteq dirs \cup {PAIRS_DIR_NAME, PAIR_GROUPS_DIR_NAME} ]_vars

\* C18's case: a fetch_pair_groups has returned the error of a missing pair
\* file from the pairs directory it created, and the store holds what it
\* held when the call began
C18_Witness ==
    \E t \in Tasks :
        /\ tasks[t].op = "fetch_pair_groups"
        /\ tasks[t].pc = "returned"
        /\ tasks[t].result = Err(ENOENT_MESSAGE)
        /\ tasks[t].pair_groups # <<>>
        /\ DirEntries(PAIRS_DIR_NAME) = {}
        /\ PAIRS_DIR_NAME \in dirs
        /\ files = tasks[t].snap[1]

\* the positions at which an operation calls ensure_dir, and those whose
\* step can return an Err: the existence check, read_dir, File::open,
\* read_to_string and from_str, File::create, write_all
DirPositions == {"wp_dir", "wg_dir", "u_dir", "f_dir", "g_dir", "p_dir"}
ErrPositions ==
    {"u_exists", "f_readdir", "g_open", "p_open", "g_read", "p_read",
     "wp_create", "wg_create", "wp_write", "wg_write"}

\* C19 (directory-creation failure is fatal): a step of ensure_dir either
\* leaves the directory in place and goes on, or panics; it never returns
\* a Result to the caller.  Every Err an operation returns is returned by a
\* step of the existence check, of a directory read, or of a file open,
\* read, decode or write, and only ensure_dir panics.
C19_DirFailureIsFatal ==
    [][ \A t \in Tasks :
          tasks'[t] # tasks[t] =>
            /\ tasks[t].pc \in DirPositions =>
                /\ tasks'[t].pc \in
                        {AfterDir(tasks[t].pc), "panicked", "abandoned"}
                /\ tasks'[t].result = NoResult
                /\ tasks'[t].pc = AfterDir(tasks[t].pc) =>
                        DirOf(tasks[t].pc) \in dirs'
            /\ (Running(t) /\ tasks'[t].pc = "returned" /\ ~tasks'[t].result.ok)
                    => tasks[t].pc \in ErrPositions
            /\ tasks'[t].pc = "panicked" => tasks[t].pc \in DirPositions ]_vars

\* C19's case: an update_pair_group has panicked in the ensure_dir of its
\* record after it wrote a pair
C19_Witness ==
    \E t \in Tasks :
        /\ tasks[t].op = "update_pair_group"
        /\ tasks[t].pc = "panicked"
        /\ tasks[t].log # <<>>
        /\ tasks[t].result = NoResult

====
